---------------------------- MODULE Spec2Model ----------------------------
(***************************************************************************)
(* Model of sdr-integration/usdr-openwebrx/usdr.py: the USDR device        *)
(* support classes UsdrSource and UsdrDeviceDescription for OpenWebRX+.    *)
(*                                                                         *)
(* Both classes extend classes of owrx.source.soapy.  Several methods call *)
(* super() and build their answer from the object the inherited method     *)
(* hands out.  The inherited classes are the environment of this module:   *)
(* what they hand out is chosen in Init from bounded sets, and whether     *)
(* they hand out an object they keep (an attribute) or one built for the   *)
(* call is a nondeterministic choice as well.                              *)
(*                                                                         *)
(* Python values:  str -> string, bool -> BOOLEAN, list -> sequence,       *)
(* dict -> function (key order is not modelled), None -> <<>> where a      *)
(* validator is expected.                                                  *)
(***************************************************************************)
EXTENDS Integers, Sequences, FiniteSets

VARIABLES
    baseRetains,        \* TRUE: the inherited methods hand out objects they keep
    baseMappings,       \* dict handed out by SoapyConnectorSource.getSoapySettingsMappings
    baseInputs,         \* list handed out by SoapyConnectorDeviceDescription.getInputs
    baseDeviceKeys,     \* list handed out by the inherited getDeviceOptionalKeys
    baseProfileKeys,    \* list handed out by the inherited getProfileOptionalKeys
    baseRanges,         \* list the inherited getSampleRateRanges would return
    baseGainStages,     \* list the inherited getGainStages would return
    op,                 \* the query called last ("none" before the first call)
    repeated,           \* TRUE when the call before it was to the same query
    super,              \* what super() handed out to that call (<<>> if not called)
    val                 \* what that call returned

vars == <<op, repeated, baseRetains, baseMappings, baseInputs, baseDeviceKeys,
          baseProfileKeys, baseRanges, baseGainStages, super, val>>

base == <<baseRetains, baseMappings, baseInputs, baseDeviceKeys,
          baseProfileKeys, baseRanges, baseGainStages>>

---------------------------------------------------------------------------
(* Bounds of the environment. *)

MaxLen == 2     \* longest list an inherited method hands out

SeqsUpTo(S, n) == UNION {[1..k -> S] : k \in 0..n}

---------------------------------------------------------------------------
(* Values of the owrx.form classes the module constructs. *)

\* validator=None
None == <<>>

\* RangeValidator(0, 5): the two positional arguments are the least and the
\* greatest value accepted.
RangeValidator(minValue, maxValue) == <<[minValue |-> minValue, maxValue |-> maxValue]>>

\* Range(100000, 65000000)
Range(start, end) == [start |-> start, end |-> end]

\* NumberInput(id, label, infotext=..., append=..., validator=...)
NumberInput(id, label, infotext, append, validator) ==
    [type |-> "NumberInput", id |-> id, label |-> label, infotext |-> infotext,
     append |-> append, validator |-> validator]

\* TextInput(id, label, infotext=...), as the inherited field list declares them
TextInput(id, label, infotext) ==
    [type |-> "TextInput", id |-> id, label |-> label, infotext |-> infotext,
     append |-> "", validator |-> None]

---------------------------------------------------------------------------
(* Python built-ins used by the methods. *)

\* dict.update(other): other's entries are written into the dict, replacing
\* the value of a key already there and keeping every other entry.
Update(d, other) ==
    [k \in (DOMAIN d) \cup (DOMAIN other) |->
        IF k \in DOMAIN other THEN other[k] ELSE d[k]]

\* The dict literal of lines 50-54.
UsdrMappings ==
    [k \in {"loglevel", "rx_bw", "tx_bw"} |-> k]

\* The list literal of lines 77-96.
UsdrInputs ==
    << NumberInput("loglevel", "Log level",
                   "Set the logging verbosity level (0-5, default: 3)", "",
                   RangeValidator(0, 5)),
       NumberInput("rx_bw", "RX Bandwidth",
                   "Set the receive bandwidth filter", "Hz", None),
       NumberInput("tx_bw", "TX Bandwidth",
                   "Set the transmit bandwidth filter", "Hz", None) >>

---------------------------------------------------------------------------
(* The environment: what the inherited classes may hand out. *)

BaseKeys == {"device", "loglevel"}

BaseFields ==
    { TextInput("device", "Device identifier", "SoapySDR device identifier"),
      NumberInput("loglevel", "Verbosity", "", "", None) }

BaseValue(k) == IF k = "device" THEN "soapy_device" ELSE "verbosity"

BaseMappingsSet == { [k \in D |-> BaseValue(k)] : D \in SUBSET BaseKeys }

BaseRangesSet == { <<>>, <<Range(250000, 3200000)>> }

BaseGainStagesSet == { <<>>, <<"LNA", "TIA", "PGA">> }

---------------------------------------------------------------------------
(* The methods.  A method that calls super() is an operator of the object  *)
(* super() handed out; it gives the method's return value (result) and     *)
(* that object as the method leaves it (super).  list + list builds a new  *)
(* list and leaves its operands alone; dict.update writes into the dict.   *)

\* Variant: the feature name of feature_patch.py in place of the driver name.
getDriver_feature == "soapy_usdr"

\* UsdrSource.getDriver
getDriver == "usdr"

\* Variant: the dict literal is returned without the inherited entries.
getSoapySettingsMappings_literal(mappings) ==
    [result |-> UsdrMappings, super |-> mappings]

\* UsdrSource.getSoapySettingsMappings: the dict super() handed out is
\* updated in place and is itself the return value.
getSoapySettingsMappings(mappings) ==
    LET updated == Update(mappings, UsdrMappings)
    IN  [result |-> updated, super |-> updated]

\* UsdrDeviceDescription.getName
getName == "USDR (Wavelet Lab Micro SDR)"

\* Variant: the new fields are put before the inherited ones.
getInputs_prepend(inputs) ==
    [result |-> UsdrInputs \o inputs, super |-> inputs]

\* Variant: the tx_bw field is left out.
getInputs_noTxBw(inputs) ==
    [result |-> inputs \o SubSeq(UsdrInputs, 1, 2), super |-> inputs]

\* UsdrDeviceDescription.getInputs
getInputs(inputs) ==
    [result |-> inputs \o UsdrInputs, super |-> inputs]

\* Variant: the profile list's literal (no loglevel) is appended.
getDeviceOptionalKeys_noLoglevel(keys) ==
    [result |-> keys \o <<"rx_bw", "tx_bw">>, super |-> keys]

\* Variant: the inherited list is extended in place (list.extend / +=).
getDeviceOptionalKeys_inPlace(keys) ==
    LET extended == keys \o <<"loglevel", "rx_bw", "tx_bw">>
    IN  [result |-> extended, super |-> extended]

\* UsdrDeviceDescription.getDeviceOptionalKeys
getDeviceOptionalKeys(keys) ==
    [result |-> keys \o <<"loglevel", "rx_bw", "tx_bw">>, super |-> keys]

\* Variant: the device list's literal (with loglevel) is appended.
getProfileOptionalKeys_withLoglevel(keys) ==
    [result |-> keys \o <<"loglevel", "rx_bw", "tx_bw">>, super |-> keys]

\* UsdrDeviceDescription.getProfileOptionalKeys
getProfileOptionalKeys(keys) ==
    [result |-> keys \o <<"rx_bw", "tx_bw">>, super |-> keys]

\* Variant: the inherited ranges are extended instead of replaced.
getSampleRateRanges_extend == baseRanges \o << Range(100000, 65000000) >>

\* UsdrDeviceDescription.getSampleRateRanges (super() is not called)
getSampleRateRanges == << Range(100000, 65000000) >>

\* Variant: the inherited stages are extended instead of replaced.
getGainStages_extend == baseGainStages \o << "LNA", "VGA1", "VGA2" >>

\* UsdrDeviceDescription.getGainStages (super() is not called)
getGainStages == << "LNA", "VGA1", "VGA2" >>

\* UsdrDeviceDescription.hasAgc
hasAgc == FALSE

---------------------------------------------------------------------------
(* State machine: the framework calls the queries in any order.            *)

Init ==
    /\ baseRetains \in BOOLEAN
    /\ baseMappings \in BaseMappingsSet
    /\ baseInputs \in SeqsUpTo(BaseFields, MaxLen)
    /\ baseDeviceKeys \in SeqsUpTo(BaseKeys, MaxLen)
    /\ baseProfileKeys \in SeqsUpTo(BaseKeys, MaxLen)
    /\ baseRanges \in BaseRangesSet
    /\ baseGainStages \in BaseGainStagesSet
    /\ op = "none"
    /\ repeated = FALSE
    /\ super = <<>>
    /\ val = <<>>

\* A call of query `name` returns `result`; `handed` is what super() gave it.
Return(name, handed, result) ==
    /\ op' = name
    /\ repeated' = (op = name)
    /\ super' = handed
    /\ val' = result

\* The object an inherited method keeps is the one the call worked on.
Kept(before, after) == IF baseRetains THEN after ELSE before

Call_getDriver ==
    /\ Return("getDriver", <<>>, getDriver)
    /\ UNCHANGED base

Call_getSoapySettingsMappings ==
    LET r == getSoapySettingsMappings(baseMappings) IN
    /\ Return("getSoapySettingsMappings", baseMappings, r.result)
    /\ baseMappings' = Kept(baseMappings, r.super)
    /\ UNCHANGED <<baseRetains, baseInputs, baseDeviceKeys, baseProfileKeys,
                   baseRanges, baseGainStages>>

Call_getName ==
    /\ Return("getName", <<>>, getName)
    /\ UNCHANGED base

Call_getInputs ==
    LET r == getInputs(baseInputs) IN
    /\ Return("getInputs", baseInputs, r.result)
    /\ baseInputs' = Kept(baseInputs, r.super)
    /\ UNCHANGED <<baseRetains, baseMappings, baseDeviceKeys, baseProfileKeys,
                   baseRanges, baseGainStages>>

Call_getDeviceOptionalKeys ==
    LET r == getDeviceOptionalKeys(baseDeviceKeys) IN
    /\ Return("getDeviceOptionalKeys", baseDeviceKeys, r.result)
    /\ baseDeviceKeys' = Kept(baseDeviceKeys, r.super)
    /\ UNCHANGED <<baseRetains, baseMappings, baseInputs, baseProfileKeys,
                   baseRanges, baseGainStages>>

Call_getProfileOptionalKeys ==
    LET r == getProfileOptionalKeys(baseProfileKeys) IN
    /\ Return("getProfileOptionalKeys", baseProfileKeys, r.result)
    /\ baseProfileKeys' = Kept(baseProfileKeys, r.super)
    /\ UNCHANGED <<baseRetains, baseMappings, baseInputs, baseDeviceKeys,
                   baseRanges, baseGainStages>>

Call_getSampleRateRanges ==
    /\ Return("getSampleRateRanges", <<>>, getSampleRateRanges)
    /\ UNCHANGED base

Call_getGainStages ==
    /\ Return("getGainStages", <<>>, getGainStages)
    /\ UNCHANGED base

Call_hasAgc ==
    /\ Return("hasAgc", <<>>, hasAgc)
    /\ UNCHANGED base

Next ==
    \/ Call_getDriver
    \/ Call_getSoapySettingsMappings
    \/ Call_getName
    \/ Call_getInputs
    \/ Call_getDeviceOptionalKeys
    \/ Call_getProfileOptionalKeys
    \/ Call_getSampleRateRanges
    \/ Call_getGainStages
    \/ Call_hasAgc

Spec == Init /\ [][Next]_vars

---------------------------------------------------------------------------
(* Properties. *)

Elems(s) == {s[i] : i \in DOMAIN s}

Count(x, s) == Cardinality({i \in DOMAIN s : s[i] = x})

FieldIds(fields) == {fields[i].id : i \in DOMAIN fields}

UsdrKeys == {"loglevel", "rx_bw", "tx_bw"}

\* C1: getDriver returns exactly "usdr" on every call, whatever queries were
\* called before it.
C1_DriverIsUsdr ==
    op = "getDriver" => val = "usdr"

\* getDriver has run after getSoapySettingsMappings wrote into a dict the
\* inherited class keeps.
C1_Witness ==
    /\ op = "getDriver"
    /\ baseRetains
    /\ "rx_bw" \in DOMAIN baseMappings

\* C2: the mapping returned by getSoapySettingsMappings has the inherited
\* keys and the three keys loglevel, rx_bw, tx_bw and no other; each of the
\* three maps to itself; every other inherited key keeps its value.
C2_MappingsExtendBase ==
    op = "getSoapySettingsMappings" =>
        /\ DOMAIN val = (DOMAIN super) \cup UsdrKeys
        /\ \A k \in UsdrKeys : val[k] = k
        /\ \A k \in (DOMAIN super) \ UsdrKeys : val[k] = super[k]

\* The inherited mapping had an entry of its own and an entry under one of
\* the three keys, with another value.
C2_Witness ==
    /\ op = "getSoapySettingsMappings"
    /\ DOMAIN super = {"device", "loglevel"}
    /\ super["loglevel"] = "verbosity"
    /\ val["device"] = "soapy_device"

\* C3 as stated: every key of the mapping returned by
\* getSoapySettingsMappings is the id of a field of getInputs.
C3_EveryKeyHasField ==
    op = "getSoapySettingsMappings" =>
        DOMAIN val \subseteq FieldIds(getInputs(baseInputs).result)

\* C3, amended: a key of the returned mapping is the id of a field of
\* getInputs, unless it is an inherited key other than the three for which
\* the inherited field list declares no field.
C3_OwnKeysHaveFields ==
    op = "getSoapySettingsMappings" =>
        \A k \in DOMAIN val :
            \/ k \in FieldIds(getInputs(baseInputs).result)
            \/ /\ k \in DOMAIN super
               /\ k \notin UsdrKeys
               /\ k \notin FieldIds(baseInputs)

\* The returned mapping has the three keys and an inherited key, and the
\* inherited field list is not empty.
C3_Witness ==
    /\ op = "getSoapySettingsMappings"
    /\ "device" \in DOMAIN val
    /\ UsdrKeys \subseteq DOMAIN val
    /\ Len(baseInputs) > 0

\* C4: getInputs returns the inherited fields in their order, followed by
\* exactly three fields with ids loglevel, rx_bw, tx_bw in that order; the
\* loglevel field's validator accepts from 0 to 5; the rx_bw and tx_bw fields
\* have the suffix "Hz" and no validator.
C4_InputsAppendThree ==
    op = "getInputs" =>
        LET n == Len(super) IN
        /\ Len(val) = n + 3
        /\ SubSeq(val, 1, n) = super
        /\ val[n + 1].id = "loglevel"
        /\ val[n + 2].id = "rx_bw"
        /\ val[n + 3].id = "tx_bw"
        /\ Len(val[n + 1].validator) = 1
        /\ val[n + 1].validator[1].minValue = 0
        /\ val[n + 1].validator[1].maxValue = 5
        /\ \A i \in {n + 2, n + 3} :
              /\ val[i].append = "Hz"
              /\ val[i].validator = None

\* getInputs has run on an inherited list that already had a loglevel field,
\* and not as its last field.
C4_Witness ==
    /\ op = "getInputs"
    /\ Len(super) >= 2
    /\ super[1].id = "loglevel"
    /\ super[2].id = "device"

\* C5 as stated: getProfileOptionalKeys returns exactly the inherited keys
\* plus rx_bw and tx_bw, and the result does not contain loglevel.
C5_NeverLoglevel ==
    op = "getProfileOptionalKeys" =>
        /\ Elems(val) = Elems(super) \cup {"rx_bw", "tx_bw"}
        /\ "loglevel" \notin Elems(val)

\* C5, amended: getProfileOptionalKeys returns the inherited keys followed by
\* rx_bw and tx_bw and nothing else; loglevel is in the result exactly as
\* often as it is in the inherited list (not at all when that has none).
C5_ProfileKeysAppendTwo ==
    op = "getProfileOptionalKeys" =>
        LET n == Len(super) IN
        /\ Len(val) = n + 2
        /\ SubSeq(val, 1, n) = super
        /\ val[n + 1] = "rx_bw"
        /\ val[n + 2] = "tx_bw"
        /\ Count("loglevel", val) = Count("loglevel", super)

\* getProfileOptionalKeys has run on an inherited list that has loglevel.
C5_Witness ==
    /\ op = "getProfileOptionalKeys"
    /\ "loglevel" \in Elems(super)
    /\ "device" \in Elems(super)

\* C6 as stated: getDeviceOptionalKeys returns the inherited keys and
\* loglevel, rx_bw, tx_bw, each of the three exactly once in the result.
C6_EachExactlyOnce ==
    op = "getDeviceOptionalKeys" =>
        /\ Elems(val) = Elems(super) \cup UsdrKeys
        /\ \A k \in UsdrKeys : Count(k, val) = 1

\* C6, amended: getDeviceOptionalKeys returns the inherited keys and
\* loglevel, rx_bw, tx_bw; each of the three is in the result exactly once
\* more than in the inherited list (exactly once when that does not have
\* it), and every other key as often as in the inherited list.
C6_DeviceKeysAppendThree ==
    op = "getDeviceOptionalKeys" =>
        /\ Elems(val) = Elems(super) \cup UsdrKeys
        /\ \A k \in UsdrKeys : Count(k, val) = Count(k, super) + 1
        /\ \A k \in Elems(super) \ UsdrKeys : Count(k, val) = Count(k, super)

\* getDeviceOptionalKeys has run on an inherited list that has loglevel.
C6_Witness ==
    /\ op = "getDeviceOptionalKeys"
    /\ Count("loglevel", super) = 1
    /\ Count("loglevel", val) = 2

\* C7: getSampleRateRanges returns exactly one interval, from 100000 to
\* 65000000, whatever ranges the inherited class declares.
C7_OneSampleRateRange ==
    op = "getSampleRateRanges" =>
        /\ Len(val) = 1
        /\ val[1].start = 100000
        /\ val[1].end = 65000000

\* getSampleRateRanges has run where the inherited class declares a range.
C7_Witness ==
    /\ op = "getSampleRateRanges"
    /\ Len(baseRanges) > 0

\* C8: getGainStages returns exactly <<"LNA", "VGA1", "VGA2">>, whatever
\* stages the inherited class declares.
C8_GainStages ==
    op = "getGainStages" =>
        /\ Len(val) = 3
        /\ val[1] = "LNA"
        /\ val[2] = "VGA1"
        /\ val[3] = "VGA2"

\* getGainStages has run where the inherited class declares stages.
C8_Witness ==
    /\ op = "getGainStages"
    /\ Len(baseGainStages) > 0

\* C9: a query called again right after itself returns what it returned
\* the first time.
C9_Idempotent ==
    [][op' = op => val' = val]_vars

\* getSoapySettingsMappings has run twice in a row, the second time on the
\* dict the first call had written into.
C9_Witness ==
    /\ op = "getSoapySettingsMappings"
    /\ repeated
    /\ baseRetains
    /\ "device" \in DOMAIN super
    /\ UsdrKeys \subseteq DOMAIN super

\* C10 as stated: no query changes an object it did not construct; the dict
\* the inherited getSoapySettingsMappings handed out is the same after
\* UsdrSource.getSoapySettingsMappings as before.
C10_BaseMappingUnchanged ==
    (op = "getSoapySettingsMappings" /\ baseRetains) => baseMappings = super

=============================================================================
